---- MODULE Spec2Model ----
(***************************************************************************)
(* A model of controller-bootstrap: the metadata-extraction and            *)
(* template-materialization engine of the `generate` command.              *)
(*                                                                         *)
(* The repository holds three generations of the command:                  *)
(*   "generate.go" : cmd/controller-bootstrap/command/{generate,apiutil}.go*)
(*   "part_005"    : unnamed/part_005 with unnamed/part_002 (or part_003)  *)
(*   "part_006"    : unnamed/part_006 with unnamed/part_004                *)
(* The variable `build` says which one a run executes.                     *)
(*                                                                         *)
(* Go strings are sequences of one-character strings, so that prefix,      *)
(* suffix, case and ordering operations are computed as the code computes  *)
(* them.                                                                   *)
(***************************************************************************)
EXTENDS Integers, Sequences, FiniteSets, TLC

VARIABLES
    apis,     \* <sdkDir>/models/apis: service directory name -> [exists, entries]
    h,        \* the AWSSDKHelper: [apiVersion]
    found,    \* the last findModelPath call: [called, svc, versionBefore, path, err]
    calls,    \* number of findModelPath calls made on h
    catalog,  \* api.OperationNames(): the operation catalog of the loaded model
    singular, \* the words pluralize.IsSingular classifies as singular
    derived,  \* the last getCRDNames call of part_004: [called, names]
    crdNames, \* the package-level slice crdNames of part_002
    derives,  \* number of getCRDNames calls made
    build,    \* the generation of the generate command that runs
    opt,      \* the flags: ServiceAlias, ModelName, OutputPath, DryRun, ...
    load,     \* what loader.Load makes of an existing model file
    pkg,      \* the package-level svcID, svcAbbreviation, svcFullName
    tplVars,  \* <<>> until the template variables are built, then <<them>>
    pc,       \* where the run is: "start", "walk", "loop", "done"
    err,      \* the error the run returned ("" is nil)
    tree,     \* the template directory: <<>> until read, then <<its files>>
    tplPaths, \* the enumerated template paths (tplPaths, filePaths)
    idx,      \* templates the loop is done with
    fs,       \* the filesystem: path -> [kind, data]
    fs0,      \* the filesystem when the first run started
    parsed,   \* the paths template.ParseFiles was called on, in order
    executed, \* the paths whose template was executed, in order
    written,  \* the paths ioutil.WriteFile wrote, in order
    printed,  \* the dry-run output: [file, text] per printed template
    run,      \* the number of the run (process) under way
    fsStart,  \* the filesystem when the current run started
    stdin,    \* what the prompt of generate.go reads: <<>> at end of input, else <<line>>
    clone,    \* what ensureSDKRepo makes of the model repository: "ok", "failed"
    stages,   \* the stages the run went through before rendering: [stage, err]
    sig       \* contextWithSigterm and its caller: the contexts, the signal
              \* channel, the watcher goroutine, where the caller is

locVars == <<apis, h, found, calls>>
derVars == <<catalog, singular, derived, crdNames, derives>>
runVars == <<build, opt, load, pkg, tplVars, pc, err, tree, tplPaths, idx, fs, fs0,
             parsed, executed, written, printed, run, fsStart, stdin, clone, stages, sig>>
envVars == <<build, opt, load, apis, catalog, singular, tree, fs0, stdin, clone, sig>>
logVars == <<parsed, executed, written, printed>>
vars == <<apis, h, found, calls, catalog, singular, derived, crdNames, derives,
          build, opt, load, pkg, tplVars, pc, err, tree, tplPaths, idx, fs, fs0,
          parsed, executed, written, printed, run, fsStart, stdin, clone, stages, sig>>

\* no run of the generate command is under way
RunIdle ==
    /\ build = "none"
    /\ opt = <<>>
    /\ load = "none"
    /\ pkg = <<>>
    /\ tplVars = <<>>
    /\ pc = "idle"
    /\ err = ""
    /\ tree = <<>>
    /\ tplPaths = <<>>
    /\ idx = 0
    /\ fs = <<>>
    /\ fs0 = <<>>
    /\ parsed = <<>>
    /\ executed = <<>>
    /\ written = <<>>
    /\ printed = <<>>
    /\ run = 0
    /\ fsStart = fs
    /\ stdin = <<>>
    /\ clone = "none"
    /\ stages = <<>>

\* contextWithSigterm has not been called
NoWatcher == [caller |-> "none"]

(***************************************************************************)
(* Bounds                                                                  *)
(***************************************************************************)
MaxEntries == 2   \* entries in one service's model directory
MaxCalls == 2     \* findModelPath calls on one helper
MaxOps == 4       \* operations in a catalog
MaxDerives == 2   \* getCRDNames calls
MaxExtras == 2    \* template files besides the static ones
MaxRuns == 2      \* runs of the command in succession
MaxSignals == 2   \* SIGINT / SIGTERM the process is sent

(***************************************************************************)
(* Go strings                                                              *)
(***************************************************************************)
\* The characters used, in byte (ASCII) order.
Alphabet ==
    <<"-",".","/","0","1","2","3","4","5","6","7","8","9",
      "A","B","C","D","E","F","G","H","I","J","K","L","M",
      "N","O","P","Q","R","S","T","U","V","W","X","Y","Z","_",
      "a","b","c","d","e","f","g","h","i","j","k","l","m",
      "n","o","p","q","r","s","t","u","v","w","x","y","z">>

Ord(c) == CHOOSE i \in 1..Len(Alphabet) : Alphabet[i] = c

Upper == <<"A","B","C","D","E","F","G","H","I","J","K","L","M",
           "N","O","P","Q","R","S","T","U","V","W","X","Y","Z">>
Lower == <<"a","b","c","d","e","f","g","h","i","j","k","l","m",
           "n","o","p","q","r","s","t","u","v","w","x","y","z">>

\* unicode.ToLower on one ASCII character
LowerChar(c) ==
    IF \E i \in 1..Len(Upper) : Upper[i] = c
    THEN Lower[CHOOSE i \in 1..Len(Upper) : Upper[i] = c]
    ELSE c

\* strings.ToLower
ToLower(s) == [i \in 1..Len(s) |-> LowerChar(s[i])]

\* strings.HasPrefix
HasPrefix(s, p) == Len(s) >= Len(p) /\ SubSeq(s, 1, Len(p)) = p

\* strings.HasSuffix
HasSuffix(s, p) == Len(s) >= Len(p) /\ SubSeq(s, Len(s) - Len(p) + 1, Len(s)) = p

\* strings.TrimPrefix: s without the prefix p, or s unchanged
TrimPrefix(s, p) == IF HasPrefix(s, p) THEN SubSeq(s, Len(p) + 1, Len(s)) ELSE s

\* strings.TrimSuffix: s without one trailing p, or s unchanged
TrimSuffix(s, p) == IF HasSuffix(s, p) THEN SubSeq(s, 1, Len(s) - Len(p)) ELSE s

\* strings.Contains
Contains(s, p) ==
    \E i \in 0..(Len(s) - Len(p)) : SubSeq(s, i + 1, i + Len(p)) = p

\* Go's < on strings: byte-wise, a proper prefix is smaller
StrLess(a, b) ==
    \E i \in 1..(Len(b)) :
        /\ i <= Len(a) + 1
        /\ SubSeq(a, 1, i - 1) = SubSeq(b, 1, i - 1)
        /\ \/ i = Len(a) + 1
           \/ (i <= Len(a) /\ Ord(a[i]) < Ord(b[i]))

\* sort.Strings, drops nothing: insertion of x into the sorted sequence s
RECURSIVE InsertSorted(_, _)
InsertSorted(x, s) ==
    IF s = <<>> THEN <<x>>
    ELSE IF StrLess(x, Head(s)) THEN <<x>> \o s
    ELSE <<Head(s)>> \o InsertSorted(x, Tail(s))

RECURSIVE SortStringsOf(_)
SortStringsOf(s) ==
    IF s = <<>> THEN <<>> ELSE InsertSorted(Head(s), SortStringsOf(Tail(s)))

\* a listing order bug: the versions as the directory listing gave them
UnsortedStrings(s) == s

\* sort.Strings(versions)
SortStrings(s) == SortStringsOf(s)

\* the sequences over S of length at most n
RECURSIVE SeqsUpTo(_, _)
SeqsUpTo(S, n) ==
    IF n = 0 THEN {<<>>}
    ELSE LET shorter == SeqsUpTo(S, n - 1)
         IN  shorter \cup {Append(s, x) : s \in shorter, x \in S}

(***************************************************************************)
(* Paths                                                                   *)
(***************************************************************************)
Slash == <<"/">>

\* elements joined with "/", empty elements ignored (filepath.Join before Clean)
RECURSIVE JoinRaw(_)
JoinRaw(elems) ==
    IF elems = <<>> THEN <<>>
    ELSE IF Head(elems) = <<>> THEN JoinRaw(Tail(elems))
    ELSE LET rest == JoinRaw(Tail(elems))
         IN  IF rest = <<>> THEN Head(elems) ELSE Head(elems) \o Slash \o rest

\* filepath.Clean for paths without "." and ".." elements: runs of "/" become
\* one, a trailing "/" is dropped unless the path is the root
RECURSIVE Collapse(_)
Collapse(p) ==
    IF Len(p) <= 1 THEN p
    ELSE IF p[1] = "/" /\ p[2] = "/" THEN Collapse(Tail(p))
    ELSE <<p[1]>> \o Collapse(Tail(p))

Clean(p) ==
    LET c == Collapse(p)
    IN  IF Len(c) > 1 /\ c[Len(c)] = "/" THEN SubSeq(c, 1, Len(c) - 1) ELSE c

\* filepath.Join
Join(elems) == Clean(JoinRaw(elems))

(***************************************************************************)
(* Model Locator (unnamed/part_004)                                        *)
(***************************************************************************)
sdkDir == <<"/","s","d","k">>                                  \* "/sdk"
S_models == <<"m","o","d","e","l","s">>                        \* "models"
S_apis == <<"a","p","i","s">>                                  \* "apis"
S_api2json == <<"a","p","i","-","2",".","j","s","o","n">>      \* "api-2.json"

\* error values (nil is "")
NoErr == ""
ErrNonDirectory == "expected to find only directories in api model directory but found non-directory"

\* ioutil.ReadDir of a service directory that is absent
AbsentDir == [exists |-> FALSE, entries |-> <<>>]

DirOf(svc) == IF svc \in DOMAIN apis THEN apis[svc] ELSE AbsentDir

\* a scan that skips the entries that are not directories
RECURSIVE ScanSkippingNonDirs(_, _, _)
ScanSkippingNonDirs(entries, i, versions) ==
    IF i > Len(entries) THEN [versions |-> versions, err |-> NoErr]
    ELSE IF entries[i].kind # "dir"
         THEN ScanSkippingNonDirs(entries, i + 1, versions)
         ELSE ScanSkippingNonDirs(entries, i + 1, Append(versions, entries[i].name))

\* the loop of getAPIVersions over the listing, from entry i on
RECURSIVE ScanVersionDirs(_, _, _)
ScanVersionDirs(entries, i, versions) ==
    IF i > Len(entries) THEN [versions |-> versions, err |-> NoErr]
    ELSE IF entries[i].kind # "dir"
         THEN [versions |-> <<>>, err |-> ErrNonDirectory]
         ELSE ScanVersionDirs(entries, i + 1, Append(versions, entries[i].name))

\* AWSSDKHelper.getAPIVersions
getAPIVersions(serviceModelName) ==
    LET d == DirOf(serviceModelName)
    IN  IF ~d.exists THEN [versions |-> <<>>, err |-> "readdir: no such file or directory"]
        ELSE LET r == ScanVersionDirs(d.entries, 1, <<>>)
             IN  IF r.err # NoErr THEN r
                 ELSE IF Len(r.versions) = 0
                      THEN [versions |-> <<>>, err |-> "no valid version directories found"]
                      ELSE r

\* a firstAPIVersion that drops the error of getAPIVersions
firstAPIVersionDroppingError(serviceModelName) ==
    LET r == getAPIVersions(serviceModelName)
    IN  IF r.versions = <<>> THEN [version |-> <<>>, err |-> NoErr]
        ELSE [version |-> SortStrings(r.versions)[1], err |-> NoErr]

\* AWSSDKHelper.firstAPIVersion
firstAPIVersion(serviceModelName) ==
    LET r == getAPIVersions(serviceModelName)
    IN  IF r.err # NoErr THEN [version |-> <<>>, err |-> r.err]
        ELSE [version |-> SortStrings(r.versions)[1], err |-> NoErr]

\* AWSSDKHelper.findModelPath on helper hh: the path, the error and the helper after
findModelPath(hh, serviceModelName) ==
    LET first == IF hh.apiVersion = <<>>
                 THEN firstAPIVersion(serviceModelName)
                 ELSE [version |-> hh.apiVersion, err |-> NoErr]
    IN  IF first.err # NoErr
        THEN [path |-> <<>>, err |-> first.err, h |-> hh]
        ELSE [path |-> Join(<<Join(<<sdkDir, S_models, S_apis, serviceModelName,
                                      first.version>>), S_api2json>>),
              err |-> NoErr,
              h |-> [hh EXCEPT !.apiVersion = first.version]]

\* newAWSSDKHelper
newAWSSDKHelper == [apiVersion |-> <<>>]

(***************************************************************************)
(* Resource-Name Deriver (unnamed/part_004, unnamed/part_002)              *)
(***************************************************************************)
S_Create == <<"C","r","e","a","t","e">>                        \* "Create"
S_CreateBatch == <<"C","r","e","a","t","e","B","a","t","c","h">>  \* "CreateBatch"

\* pluralize.IsSingular(resName): the library's verdict on the word
IsSingular(resName) == resName \in singular

\* a loop that lacks the "CreateBatch" test
RECURSIVE CRDLoopKeepingBatch(_, _, _)
CRDLoopKeepingBatch(opNames, i, names) ==
    IF i > Len(opNames) THEN names
    ELSE IF HasPrefix(opNames[i], S_Create)
         THEN LET resName == TrimPrefix(opNames[i], S_Create)
              IN  IF IsSingular(resName)
                  THEN CRDLoopKeepingBatch(opNames, i + 1, Append(names, resName))
                  ELSE CRDLoopKeepingBatch(opNames, i + 1, names)
         ELSE CRDLoopKeepingBatch(opNames, i + 1, names)

\* the loop of getCRDNames over the operation names, from position i on,
\* appending to names
RECURSIVE CRDLoop(_, _, _)
CRDLoop(opNames, i, names) ==
    IF i > Len(opNames) THEN names
    ELSE IF HasPrefix(opNames[i], S_CreateBatch)
         THEN CRDLoop(opNames, i + 1, names)
         ELSE IF HasPrefix(opNames[i], S_Create)
              THEN LET resName == TrimPrefix(opNames[i], S_Create)
                   IN  IF IsSingular(resName)
                       THEN CRDLoop(opNames, i + 1, Append(names, resName))
                       ELSE CRDLoop(opNames, i + 1, names)
              ELSE CRDLoop(opNames, i + 1, names)

\* a getCRDNames that appends to what the call before returned
getCRDNamesKeepingOld(opNames) == CRDLoop(opNames, 1, derived.names)

\* getCRDNames of part_004: a fresh slice, returned
getCRDNames(opNames) == CRDLoop(opNames, 1, <<>>)

\* getCRDNames of part_002: appended to the package-level slice crdNames
getCRDNamesGlobal(opNames, global) == CRDLoop(opNames, 1, global)

(***************************************************************************)
(* The inputs of the deriver                                               *)
(***************************************************************************)
Op_CreateWidget == <<"C","r","e","a","t","e","W","i","d","g","e","t">>
Op_CreateBatchWidgets ==
    <<"C","r","e","a","t","e","B","a","t","c","h","W","i","d","g","e","t","s">>
Op_CreateThings == <<"C","r","e","a","t","e","T","h","i","n","g","s">>
Op_DescribeWidget == <<"D","e","s","c","r","i","b","e","W","i","d","g","e","t">>

W_Widget == <<"W","i","d","g","e","t">>                                \* "Widget"
W_BatchWidgets == <<"B","a","t","c","h","W","i","d","g","e","t","s">>  \* "BatchWidgets"
W_Things == <<"T","h","i","n","g","s">>                                \* "Things"

DistinctOps(ops) == \A i, j \in 1..Len(ops) : i # j => ops[i] # ops[j]

\* operation names are the keys of a map: no name occurs twice
Catalogs ==
    {ops \in SeqsUpTo({Op_CreateWidget, Op_CreateBatchWidgets, Op_CreateThings,
                       Op_DescribeWidget, S_Create}, MaxOps) : DistinctOps(ops)}

NotDerived == [called |-> FALSE, names |-> <<>>]

DeriveIdle ==
    /\ catalog = <<>>
    /\ singular = {}
    /\ derived = NotDerived
    /\ crdNames = <<>>
    /\ derives = 0

(***************************************************************************)
(* The inputs of the locator                                               *)
(***************************************************************************)
S_s3 == <<"s","3">>                   \* "s3"
Services == {S_s3, <<"s","n","s">>}   \* "s3", "sns"

V_2006 == <<"2","0","0","6">>         \* "2006"
V_2014 == <<"2","0","1","4">>         \* "2014"
V_201 == <<"2","0","1">>              \* "201"

DistinctNames(entries) ==
    \A i, j \in 1..Len(entries) : i # j => entries[i].name # entries[j].name

\* the listings ioutil.ReadDir can return, in any order
Listings ==
    {l \in SeqsUpTo([name : {V_2006, V_2014, V_201}, kind : {"dir", "file"}], MaxEntries) :
        DistinctNames(l)}

DirStates == {AbsentDir} \cup {[exists |-> TRUE, entries |-> l] : l \in Listings}

NotCalled == [called |-> FALSE, svc |-> <<>>, versionBefore |-> <<>>,
              path |-> <<>>, err |-> NoErr]

InitLocate ==
    /\ apis \in [Services -> DirStates]
    /\ h = newAWSSDKHelper
    /\ found = NotCalled
    /\ calls = 0
    /\ DeriveIdle
    /\ RunIdle
    /\ sig = NoWatcher

\* one call h.findModelPath(svc)
Locate(svc) ==
    /\ calls < MaxCalls
    /\ LET r == findModelPath(h, svc)
       IN  /\ found' = [called |-> TRUE, svc |-> svc, versionBefore |-> h.apiVersion,
                        path |-> r.path, err |-> r.err]
           /\ h' = r.h
    /\ calls' = calls + 1
    /\ UNCHANGED <<apis, derVars, runVars>>

NextLocate == \E svc \in Services : Locate(svc)

SpecLocate == InitLocate /\ [][NextLocate]_vars

LocateIdle ==
    /\ apis = [s \in Services |-> AbsentDir]
    /\ h = newAWSSDKHelper
    /\ found = NotCalled
    /\ calls = 0

InitDerive ==
    /\ catalog \in Catalogs
    /\ singular \in SUBSET {W_Widget, W_BatchWidgets, W_Things, <<>>}
    /\ derived = NotDerived
    /\ crdNames = <<>>
    /\ derives = 0
    /\ LocateIdle
    /\ RunIdle
    /\ sig = NoWatcher

\* part_004: crdNames := getCRDNames(api)
DeriveNames ==
    /\ derives < MaxDerives
    /\ derived' = [called |-> TRUE, names |-> getCRDNames(catalog)]
    /\ derives' = derives + 1
    /\ UNCHANGED <<catalog, singular, crdNames, locVars, runVars>>

\* part_002: getCRDNames(operationNames), into the package-level crdNames
DeriveNamesGlobal ==
    /\ derives < MaxDerives
    /\ crdNames' = getCRDNamesGlobal(catalog, crdNames)
    /\ derives' = derives + 1
    /\ UNCHANGED <<catalog, singular, derived, locVars, runVars>>

NextDerive == DeriveNames \/ DeriveNamesGlobal

SpecDerive == InitDerive /\ [][NextDerive]_vars

(***************************************************************************)
(* Metadata extraction: getServiceResources                                *)
(***************************************************************************)

\* the serviceId written in the api-2.json files of a service directory
ServiceIDIn(dir) ==
    IF dir = S_s3 THEN <<"S","3">> ELSE <<"N","o","t","i","f","y">>   \* "S3", "Notify"

\* the API object the loader builds from a model file of a service directory
APIOf(dir) ==
    [ServiceID |-> ServiceIDIn(dir),
     ServiceAbbreviation |-> <<"A","b","b","r">>,
     ServiceFullName |-> <<"F","u","l","l">>,
     OperationNames |-> catalog]

\* the names of the version directories of a listing, in lexical order
VersionDirsOf(d) ==
    SortStrings(ScanSkippingNonDirs(d.entries, 1, <<>>).versions)

\* the service directories that hold a model file at path
HoldersOf(path) ==
    {s \in DOMAIN apis :
        /\ apis[s].exists
        /\ \E i \in 1..Len(apis[s].entries) :
              /\ apis[s].entries[i].kind = "dir"
              /\ Join(<<sdkDir, S_models, S_apis, s, apis[s].entries[i].name,
                        S_api2json>>) = path}

\* loader.Load([]string{path}) with IgnoreUnsupportedAPIs: an error, an empty
\* map with a nil error (a model without operations is skipped), or one API
Load(path) ==
    IF HoldersOf(path) = {} \/ load = "error"
    THEN [apis |-> <<>>, err |-> "failed to load API"]
    ELSE IF load = "empty"
         THEN [apis |-> <<>>, err |-> NoErr]
         ELSE [apis |-> <<APIOf(CHOOSE s \in HoldersOf(path) : TRUE)>>, err |-> NoErr]

\* one stage of the extraction as the run went through it, and its error
Stage(name, e) == [stage |-> name, err |-> e]

\* serviceMetaVars (part_004)
serviceMetaVars(api) ==
    [ServicePackageName |-> ToLower(opt.ServiceAlias),
     ServiceID |-> api.ServiceID,
     ServiceModelName |-> ToLower(opt.ModelName),
     ServiceAbbreviation |-> api.ServiceAbbreviation,
     ServiceFullName |-> api.ServiceFullName,
     CRDNames |-> getCRDNames(api.OperationNames)]

\* AWSSDKHelper.API (part_004): svcVars is <<>> for a nil *metaVars
API(hh) ==
    LET serviceModelName ==
            IF opt.ModelName = <<>> THEN ToLower(opt.ServiceAlias)
            ELSE ToLower(opt.ModelName)
        fm == findModelPath(hh, serviceModelName)   \* its error is dropped
        ld == Load(fm.path)
    IN  [svcVars |-> IF ld.err # NoErr THEN <<>>
                     ELSE IF ld.apis # <<>> THEN <<serviceMetaVars(ld.apis[1])>>
                     ELSE <<>>,
         err |-> IF ld.err # NoErr THEN ld.err ELSE NoErr,
         h |-> fm.h,
         stages |-> <<Stage("locate", fm.err), Stage("load", ld.err)>>]

\* getServiceResources (part_004)
getServiceResources ==
    LET r == API(newAWSSDKHelper)
    IN  [r EXCEPT
            !.svcVars = IF r.err # NoErr THEN <<>> ELSE @,
            !.err = IF @ # NoErr
                    THEN "unable to find the supplied service's API file, please re-try specifying the service model name"
                    ELSE NoErr]

\* the characters the scan of a "serviceId" line removes: `[," \t]`
Removed == {",", "\"", " ", "\t"}

RECURSIVE StripRemoved(_)
StripRemoved(s) ==
    IF s = <<>> THEN <<>>
    ELSE IF Head(s) \in Removed THEN StripRemoved(Tail(s))
    ELSE <<Head(s)>> \o StripRemoved(Tail(s))

\* the service id the line scan reads in the model files of a directory
ScannedID(dir) == ToLower(StripRemoved(ServiceIDIn(dir)))

\* keeps the elements of versions whose model file has the scanned id name
RECURSIVE MatchingVersions(_, _, _)
MatchingVersions(dir, versions, name) ==
    IF versions = <<>> THEN <<>>
    ELSE IF ScannedID(dir) = name
         THEN <<Head(versions)>> \o MatchingVersions(dir, Tail(versions), name)
         ELSE MatchingVersions(dir, Tail(versions), name)

\* findModelPath (part_002): walks <sdkDir>/models/apis/<modelName>
findModelPathByID(modelName) ==
    LET d == DirOf(modelName)
    IN  IF ~d.exists THEN [path |-> <<>>, err |-> "walk: no such file or directory"]
        ELSE LET m == MatchingVersions(modelName, VersionDirsOf(d), modelName)
             IN  IF m = <<>> THEN [path |-> <<>>, err |-> NoErr]
                 ELSE [path |-> Join(<<sdkDir, S_models \o Slash \o S_apis, modelName, m[1],
                                      S_api2json>>),
                       err |-> NoErr]

RECURSIVE SetToSeq(_)
SetToSeq(S) ==
    IF S = {} THEN <<>>
    ELSE LET x == CHOOSE x \in S : TRUE IN <<x>> \o SetToSeq(S \ {x})

\* the model files below <sdkDir>/models/apis whose scanned id is name, in the
\* lexical order of filepath.Walk, over the service directories dirs
RECURSIVE MatchingFiles(_, _)
MatchingFiles(dirs, name) ==
    IF dirs = <<>> THEN <<>>
    ELSE LET dir == Head(dirs)
             m == MatchingVersions(dir, VersionDirsOf(apis[dir]), name)
         IN  [i \in 1..Len(m) |->
                 Join(<<sdkDir, S_models, S_apis, dir, m[i], S_api2json>>)]
             \o MatchingFiles(Tail(dirs), name)

\* findModelAPI (apiutil.go): walks all of <sdkDir>/models/apis
findModelAPI(svcAlias) ==
    LET dirs == SortStrings(SetToSeq({s \in DOMAIN apis : apis[s].exists}))
        m == MatchingFiles(dirs, svcAlias)
    IN  IF clone = "failed" THEN [path |-> <<>>, err |-> "walk: no such file or directory"]
        ELSE IF m = <<>> THEN [path |-> <<>>, err |-> NoErr]
        ELSE [path |-> m[1], err |-> NoErr]

\* the package-level variables at process start
ZeroPkg == [svcID |-> <<>>, svcAbbreviation |-> <<>>, svcFullName |-> <<>>]

\* AWSSDKHelper.modelAPI (apiutil.go, part_002): sets the package-level
\* variables from the loaded API and appends the resource names to the
\* package-level slice
modelAPI(filePath) ==
    LET ld == Load(filePath)
    IN  IF ld.err # NoErr
        THEN [err |-> ld.err, pkg |-> pkg, crdNames |-> crdNames,
              stages |-> <<Stage("load", ld.err)>>]
        ELSE IF ld.apis = <<>>
             THEN [err |-> NoErr, pkg |-> pkg, stages |-> <<Stage("load", NoErr)>>,
                   crdNames |-> getCRDNamesGlobal(<<>>, crdNames)]
             ELSE [err |-> NoErr, stages |-> <<Stage("load", NoErr)>>,
                   pkg |-> [svcID |-> ld.apis[1].ServiceID,
                            svcAbbreviation |-> ld.apis[1].ServiceAbbreviation,
                            svcFullName |-> ld.apis[1].ServiceFullName],
                   crdNames |-> getCRDNamesGlobal(ld.apis[1].OperationNames, crdNames)]

Unchanged(e) == [err |-> e, pkg |-> pkg, crdNames |-> crdNames, stages |-> <<>>]

\* the outcome r of a call, after the stages st the caller went through
After(st, r) == [r EXCEPT !.stages = st \o @]

\* getServiceResources (part_002)
getServiceResourcesByID(svcAlias) ==
    LET svcModelName == IF opt.ModelName # <<>> THEN ToLower(opt.ModelName)
                        ELSE svcAlias
        f == findModelPathByID(svcModelName)
    IN  After(<<Stage("locate", f.err)>>,
              IF f.err # NoErr THEN Unchanged(f.err)
              ELSE IF f.path = <<>>
                   THEN Unchanged("unable to find the api-2.json file of the service alias, please try specifying the service model name")
              ELSE modelAPI(f.path))

\* getServiceResources (apiutil.go); answer is what the prompt reads: <<>> for
\* a read error, <<line>> for a line without its newline
getServiceResourcesPrompting(svcAlias, answer) ==
    LET f == findModelAPI(svcAlias)
    IN  After(<<Stage("locate", f.err)>>,
              IF f.err # NoErr THEN Unchanged(f.err)
              ELSE IF f.path # <<>> THEN modelAPI(f.path)
              ELSE IF answer = <<>>
                   THEN Unchanged("unable to read the input for service model name")
              ELSE LET g == findModelAPI(answer[1])
                   IN  After(<<Stage("locate", g.err)>>,
                             IF g.err # NoErr THEN Unchanged(g.err)
                             ELSE IF g.path = <<>>
                                  THEN Unchanged("unable to find the service api-2.json file")
                             ELSE modelAPI(g.path)))

(***************************************************************************)
(* The generate command                                                    *)
(***************************************************************************)

S_out == <<"/","o">>       \* "/o"

\* the flags of a run (for generate.go the alias is args[0])
Options ==
    [ServiceAlias : {<<"S","3">>},                  \* "S3"
     ModelName : {<<>>, <<"S","N","S">>},           \* "", "SNS"
     OutputPath : {<<>>, S_out},
     DryRun : BOOLEAN,
     ExistingController : BOOLEAN,
     AWSSDKGoVersion : {<<"v","1">>},               \* "v1"
     RuntimeVersion : {<<"v","0">>}]                \* "v0"

(***************************************************************************)
(* The filesystem: os.Stat, os.MkdirAll, ioutil.WriteFile, ensureDir       *)
(***************************************************************************)
ErrNotDir == "stat: not a directory"
ErrIsDir == "open: is a directory"
ErrPermission == "permission denied"

\* writable: whether the process has write permission on the entry
DirEntry == [kind |-> "dir", data |-> <<>>, writable |-> TRUE]
FileEntry(data) == [kind |-> "file", data |-> data, writable |-> TRUE]

HasSlash(p) == \E i \in 1..Len(p) : p[i] = "/"
LastSlash(p) ==
    CHOOSE i \in 1..Len(p) : p[i] = "/" /\ \A j \in (i + 1)..Len(p) : p[j] # "/"

\* filepath.Dir of a clean path
Dir(p) ==
    IF ~HasSlash(p) THEN <<".">>
    ELSE IF LastSlash(p) = 1 THEN Slash
    ELSE SubSeq(p, 1, LastSlash(p) - 1)

\* the directories above p
RECURSIVE Ancestors(_)
Ancestors(p) ==
    IF p = Slash \/ ~HasSlash(p) THEN {}
    ELSE {Dir(p)} \cup Ancestors(Dir(p))

\* os.Stat(fp) on the filesystem f
Stat(f, fp) ==
    IF fp \in DOMAIN f THEN "exists"
    ELSE IF \E a \in Ancestors(fp) : a \in DOMAIN f /\ f[a].kind = "file"
         THEN "ENOTDIR"
         ELSE "ENOENT"

\* an os.Mkdir in its place: the last directory only
MkdirLeafOnly(f, fp) ==
    [fs |-> [q \in DOMAIN f \cup {fp} |-> IF q \in DOMAIN f THEN f[q] ELSE DirEntry],
     err |-> NoErr]

\* os.MkdirAll(fp, os.ModePerm) when no element of fp is a file: the first
\* missing directory is made in the deepest one that is there, which takes
\* write permission on it
MkdirAll(f, fp) ==
    LET there == Ancestors(fp) \cap DOMAIN f
        deepest == CHOOSE a \in there : \A b \in there : Len(b) <= Len(a)
    IN  IF ~f[deepest].writable THEN [fs |-> f, err |-> ErrPermission]
        ELSE [fs |-> [q \in DOMAIN f \cup {fp} \cup Ancestors(fp) |->
                         IF q \in DOMAIN f THEN f[q] ELSE DirEntry],
              err |-> NoErr]

\* ensureDir(fp): the filesystem after, and the error
ensureDir(f, fp) ==
    IF Stat(f, fp) = "ENOENT" THEN MkdirAll(f, fp)
    ELSE IF Stat(f, fp) = "ENOTDIR" THEN [fs |-> f, err |-> ErrNotDir]
    ELSE IF f[fp].kind # "dir" THEN [fs |-> f, err |-> "expected to be a directory"]
    ELSE [fs |-> f, err |-> NoErr]

\* a write that appends to the file that is there
WriteFileAppending(f, path, data) ==
    IF path \in DOMAIN f /\ f[path].kind = "dir" THEN [fs |-> f, err |-> ErrIsDir]
    ELSE IF Dir(path) \notin DOMAIN f \/ f[Dir(path)].kind # "dir"
         THEN [fs |-> f, err |-> ErrNotDir]
         ELSE [fs |-> [q \in DOMAIN f \cup {path} |->
                          IF q # path THEN f[q]
                          ELSE IF path \in DOMAIN f THEN FileEntry(f[path].data \o data)
                          ELSE FileEntry(data)],
               err |-> NoErr]

\* a write that leaves a file that is there as it is
WriteFileIfAbsent(f, path, data) ==
    IF path \in DOMAIN f THEN [fs |-> f, err |-> NoErr]
    ELSE [fs |-> [q \in DOMAIN f \cup {path} |-> IF q = path THEN FileEntry(data) ELSE f[q]],
          err |-> NoErr]

\* ioutil.WriteFile(path, data, 0666): O_WRONLY|O_CREATE|O_TRUNC. Creating
\* takes write permission on the directory; truncating a file that is there
\* takes write permission on the file alone
WriteFile(f, path, data) ==
    IF path \in DOMAIN f /\ f[path].kind = "dir" THEN [fs |-> f, err |-> ErrIsDir]
    ELSE IF Dir(path) \notin DOMAIN f \/ f[Dir(path)].kind # "dir"
         THEN [fs |-> f, err |-> ErrNotDir]
    ELSE IF path \notin DOMAIN f /\ ~f[Dir(path)].writable
         THEN [fs |-> f, err |-> ErrPermission]
    ELSE IF path \in DOMAIN f /\ ~f[path].writable
         THEN [fs |-> f, err |-> ErrPermission]
         ELSE [fs |-> [q \in DOMAIN f \cup {path} |->
                          IF q = path THEN FileEntry(data) ELSE f[q]],
               err |-> NoErr]

\* a write that on failure puts the files of the run back as they were
writeFilesRollingBack(f, outPath, data) ==
    LET d == ensureDir(f, Dir(outPath))
        w == WriteFile(d.fs, outPath, data)
    IN  IF d.err # NoErr \/ w.err # NoErr
        THEN [fs |-> fsStart, err |-> IF d.err # NoErr THEN d.err ELSE w.err, wrote |-> FALSE]
        ELSE [fs |-> w.fs, err |-> NoErr, wrote |-> TRUE]

\* ensureDir(filepath.Dir(outPath)) and then ioutil.WriteFile(outPath, ...)
\* (writeFiles of generate.go; lines 114-121 of part_006, 117-124 of part_005)
writeFiles(f, outPath, data) ==
    LET d == ensureDir(f, Dir(outPath))
    IN  IF d.err # NoErr THEN [fs |-> d.fs, err |-> d.err, wrote |-> FALSE]
        ELSE LET w == WriteFile(d.fs, outPath, data)
             IN  [fs |-> w.fs, err |-> w.err, wrote |-> w.err = NoErr]

(***************************************************************************)
(* Templates: template.ParseFiles and Execute                              *)
(***************************************************************************)
ErrNoSuchTemplate == "open: no such file or directory"
ErrParse == "template: parse error"
ErrNoField == "can't evaluate field"
ErrNilPointer == "nil pointer evaluating *metaVars field"

S_tpl == <<".","t","p","l">>                           \* ".tpl"
\* filepath.Join(cd, "template"), the working directory cd being "/w"
tplDir == Join(<<<<"/","w">>, <<"t","e","m","p","l","a","t","e">>>>)

RECURSIVE JoinWords(_)
JoinWords(l) ==
    IF l = <<>> THEN <<>>
    ELSE IF Len(l) = 1 THEN l[1]
    ELSE l[1] \o <<" ">> \o JoinWords(Tail(l))

\* how the template engine prints a value: a string as it is, a []string as
\* [a b c]
Format(field, v) ==
    IF field \in {"CRDNames", "ServiceResources"}
    THEN <<"[">> \o JoinWords(v) \o <<"]">>
    ELSE v

\* the value of {{ .field }} in the context ctx
EvalField(ctx, field) ==
    IF field \in DOMAIN ctx \ {"metaVars"}
    THEN [val |-> Format(field, ctx[field]), err |-> NoErr]
    ELSE IF /\ "metaVars" \in DOMAIN ctx
            /\ field \in {"ServiceID", "ServicePackageName", "ServiceModelName",
                          "ServiceAbbreviation", "ServiceFullName", "CRDNames"}
         THEN IF ctx.metaVars = <<>>
              THEN [val |-> <<>>, err |-> ErrNilPointer]
              ELSE [val |-> Format(field, ctx.metaVars[1][field]), err |-> NoErr]
         ELSE [val |-> <<>>, err |-> ErrNoField]

Text(t) == [kind |-> "text", text |-> t, field |-> ""]
Field(name) == [kind |-> "field", text |-> <<>>, field |-> name]
Malformed == <<[kind |-> "malformed", text |-> <<>>, field |-> ""]>>

\* tmp.Execute(&buf, tplVars) from token i of the body on
RECURSIVE ExecuteFrom(_, _, _, _)
ExecuteFrom(body, i, ctx, out) ==
    IF i > Len(body) THEN [out |-> out, err |-> NoErr]
    ELSE IF body[i].kind = "text"
         THEN ExecuteFrom(body, i + 1, ctx, out \o body[i].text)
         ELSE LET r == EvalField(ctx, body[i].field)
              IN  IF r.err # NoErr THEN [out |-> out, err |-> r.err]
                  ELSE ExecuteFrom(body, i + 1, ctx, out \o r.val)

Execute(body, ctx) == ExecuteFrom(body, 1, ctx, <<>>)

\* template.ParseFiles(path) on the template directory t
ParseFiles(t, path) ==
    IF ~\E i \in 1..Len(t) : t[i].path = path
    THEN [body |-> <<>>, err |-> ErrNoSuchTemplate]
    ELSE LET file == t[CHOOSE i \in 1..Len(t) : t[i].path = path]
         IN  IF file.body = Malformed THEN [body |-> <<>>, err |-> ErrParse]
             ELSE [body |-> file.body, err |-> NoErr]

\* ParseFiles and then Execute on the template at path
RenderOne(path) ==
    LET p == ParseFiles(tree[1], path)
    IN  IF p.err # NoErr THEN [out |-> <<>>, err |-> p.err, executed |-> FALSE]
        ELSE LET e == Execute(p.body, tplVars[1])
             IN  [out |-> e.out, err |-> e.err, executed |-> TRUE]

Space == {" ", "\n", "\t"}

\* strings.TrimSpace
RECURSIVE TrimLeft(_)
TrimLeft(s) == IF s # <<>> /\ Head(s) \in Space THEN TrimLeft(Tail(s)) ELSE s
RECURSIVE TrimRight(_)
TrimRight(s) ==
    IF s # <<>> /\ s[Len(s)] \in Space THEN TrimRight(SubSeq(s, 1, Len(s) - 1)) ELSE s
TrimSpace(s) == TrimRight(TrimLeft(s))

(***************************************************************************)
(* The template directories and filesystems a run may meet                 *)
(***************************************************************************)
N_Makefile == <<"M","a","k","e","f","i","l","e">>                            \* "Makefile"
N_OWNERS == <<"O","W","N","E","R","S",".","t","p","l">>                      \* "OWNERS.tpl"
N_README == <<"R","E","A","D","M","E",".","m","d",".","t","p","l">>          \* "README.md.tpl"
N_main == <<"c","m","d","/","m","a","i","n",".","g","o",".","t","p","l">>  \* "cmd/main.go.tpl"

\* staticFiles (part_005): CODE_OF_CONDUCT.md.tpl, CONTRIBUTING.md.tpl,
\* GOVERNANCE.md.tpl, LICENSE.tpl, NOTICE.tpl, SECURITY.md.tpl
staticFiles ==
    <<<<"C","O","D","E","_","O","F","_","C","O","N","D","U","C","T",".","m","d",".","t","p","l">>,
      <<"C","O","N","T","R","I","B","U","T","I","N","G",".","m","d",".","t","p","l">>,
      <<"G","O","V","E","R","N","A","N","C","E",".","m","d",".","t","p","l">>,
      <<"L","I","C","E","N","S","E",".","t","p","l">>,
      <<"N","O","T","I","C","E",".","t","p","l">>,
      <<"S","E","C","U","R","I","T","Y",".","m","d",".","t","p","l">>>>

\* the files a template directory may hold, in the lexical order in which
\* filepath.Walk visits them, each with the text of the template
Universe ==
    <<[name |-> staticFiles[1], body |-> <<Text(<<"c">>)>>],
      [name |-> staticFiles[2], body |-> <<Text(<<"c">>)>>],
      [name |-> staticFiles[3], body |-> <<Text(<<"g">>)>>],
      [name |-> staticFiles[4], body |-> <<Text(<<"l">>)>>],
      [name |-> N_Makefile, body |-> <<Text(<<"m">>)>>],
      [name |-> staticFiles[5], body |-> <<Text(<<"n">>)>>],
      [name |-> N_OWNERS, body |-> <<Field("RuntimeVersion")>>],
      [name |-> N_README, body |-> <<Field("ServiceID"), Text(<<" ">>),
                                     Field("ServicePackageName")>>],
      [name |-> staticFiles[6], body |-> <<Text(<<"s">>)>>],
      [name |-> N_main, body |-> <<Field("ServicePackageName"), Text(<<"\n">>)>>]>>

StaticNames == {staticFiles[i] : i \in 1..Len(staticFiles)}
ExtraNames == {N_Makefile, N_OWNERS, N_README, N_main}

\* the files of Universe whose name is in present, the one named bad with the
\* text badBody
RECURSIVE Pick(_, _, _, _)
Pick(i, present, bad, badBody) ==
    IF i > Len(Universe) THEN <<>>
    ELSE (IF Universe[i].name \in present
          THEN <<[path |-> Join(<<tplDir, Universe[i].name>>),
                  body |-> IF Universe[i].name = bad THEN badBody
                           ELSE Universe[i].body]>>
          ELSE <<>>)
         \o Pick(i + 1, present, bad, badBody)

\* the entry of a directory that os.Lstat finds and that cannot be read
Unreadable == <<[kind |-> "unreadable directory", text |-> <<>>, field |-> ""]>>

\* the template directories: files of Universe, one of them at most broken, or
\* the static files (and README.md.tpl) after a directory ".github" that
\* cannot be read, or the static files before a directory "config" that
\* cannot be read, or a malformed Makefile before README.md.tpl
Trees ==
    {Pick(1, st \cup ex, bad, bb) :
        st \in {{}, StaticNames},
        ex \in {e \in SUBSET ExtraNames : Cardinality(e) <= MaxExtras},
        bad \in {N_README, staticFiles[4], <<>>},
        bb \in {Malformed, <<Field("NoSuchField")>>}}
    \cup
    {<<[path |-> Join(<<tplDir, <<".","g","i","t","h","u","b">>>>), body |-> Unreadable]>>
        \o Pick(1, StaticNames \cup ex, <<>>, Malformed) : ex \in {{}, {N_README}}}
    \cup
    {Pick(1, StaticNames, <<>>, Malformed)
        \o <<[path |-> Join(<<tplDir, <<"c","o","n","f","i","g">>>>), body |-> Unreadable]>>}
    \cup
    {Pick(1, {N_Makefile, N_README}, N_Makefile, Malformed)}

FS_Empty == [q \in {Slash} |-> DirEntry]

\* a controller repository at "/o": /o/README.md and a hand-edited
\* /o/cmd/main.go
FS_Existing ==
    LET readme == Join(<<S_out, <<"R","E","A","D","M","E",".","m","d">>>>)
        main == Join(<<S_out, <<"c","m","d">>, <<"m","a","i","n",".","g","o">>>>)
    IN  [q \in {Slash, S_out, readme, Dir(main), main} |->
            IF q = readme THEN FileEntry(<<"o","l","d">>)
            ELSE IF q = main THEN FileEntry(<<"e","d","i","t","e","d">>)
            ELSE DirEntry]

\* the same repository with no write permission on "/o" (mode 0555) and
\* nothing but the README.md in it
FS_ReadOnly ==
    LET readme == Join(<<S_out, <<"R","E","A","D","M","E",".","m","d">>>>)
    IN  [q \in {Slash, S_out, readme} |->
            IF q = readme THEN FileEntry(<<"o","l","d">>)
            ELSE IF q = S_out THEN [DirEntry EXCEPT !.writable = FALSE]
            ELSE DirEntry]

\* a file where the output directory should be
FS_Blocked == [q \in {Slash, S_out} |-> IF q = S_out THEN FileEntry(<<>>) ELSE DirEntry]

InitRun ==
    /\ build \in {"generate.go", "part_005", "part_006"}
    /\ opt \in Options
    /\ load \in {"error", "empty", "api"}
    /\ apis \in {[s \in Services |-> d] :
                    d \in {AbsentDir,
                           [exists |-> TRUE, entries |-> <<>>],
                           [exists |-> TRUE, entries |-> <<[name |-> V_2006, kind |-> "dir"]>>]}}
    \* a clone that failed leaves no model directory behind
    /\ clone \in (IF \A s \in Services : ~apis[s].exists THEN {"ok", "failed"} ELSE {"ok"})
    /\ stages = <<>>
    /\ sig = NoWatcher
    /\ h = newAWSSDKHelper
    /\ found = NotCalled
    /\ calls = 0
    /\ catalog = <<Op_CreateWidget, Op_CreateThings>>
    /\ singular = {W_Widget}
    /\ derived = NotDerived
    /\ crdNames = <<>>
    /\ derives = 0
    /\ pkg = ZeroPkg
    /\ tplVars = <<>>
    /\ pc = "start"
    /\ err = NoErr
    /\ tree = <<>>
    /\ tplPaths = <<>>
    /\ idx = 0
    \* a dry run reads and writes nothing below the output path: one
    \* filesystem stands for all of them there
    /\ fs0 \in (IF opt.DryRun THEN {FS_Existing}
                ELSE {FS_Empty, FS_Existing, FS_ReadOnly, FS_Blocked})
    /\ fs = fs0
    /\ parsed = <<>>
    /\ executed = <<>>
    /\ written = <<>>
    /\ printed = <<>>
    /\ run = 1
    /\ fsStart = fs
    /\ stdin \in (IF build = "generate.go" THEN {<<>>} \cup {<<s>> : s \in Services} ELSE {<<>>})

\* ensureSDKRepo: the error of the clone
ensureSDKRepo == IF clone = "failed" THEN "canot clone repository" ELSE NoErr

\* generateController up to tplVars (part_006 lines 49-78)
Extract_part006 ==
    /\ build = "part_006"
    /\ pc = "start"
    /\ \E a \in {ensureSDKRepo} :
       \E r \in {IF a # NoErr
                 THEN [svcVars |-> <<>>, err |-> a, h |-> h, stages |-> <<>>]
                 ELSE getServiceResources} :
           /\ h' = r.h
           /\ stages' = <<Stage("acquire", a)>> \o r.stages
           /\ IF r.err # NoErr
              THEN /\ err' = r.err
                   /\ pc' = "done"
                   /\ UNCHANGED tplVars
              ELSE /\ tplVars' = <<[metaVars |-> r.svcVars,
                                    AWSSDKGoVersion |-> opt.AWSSDKGoVersion,
                                    RuntimeVersion |-> opt.RuntimeVersion,
                                    ServiceModelName |-> opt.ModelName]>>
                   /\ pc' = "walk"
                   /\ UNCHANGED err
    /\ UNCHANGED <<envVars, found, calls, derived, crdNames, derives, pkg, tplPaths,
                   idx, fs, logVars, run, fsStart>>

\* generateTemplates up to tplVars (part_005 lines 61-75)
Extract_part005 ==
    /\ build = "part_005"
    /\ pc = "start"
    /\ \E svcAlias \in {ToLower(opt.ServiceAlias)} :
       \E r \in {getServiceResourcesByID(svcAlias)} :
           /\ pkg' = r.pkg
           /\ crdNames' = r.crdNames
           \* the error of ensureSDKRepo is assigned and never read
           /\ stages' = <<Stage("acquire", ensureSDKRepo)>> \o r.stages
           /\ IF r.err # NoErr
              THEN /\ err' = r.err
                   /\ pc' = "done"
                   /\ UNCHANGED tplVars
              ELSE /\ tplVars' = <<[ServiceID |-> r.pkg.svcID,
                                    ServicePackageName |-> svcAlias,
                                    ServiceAbbreviation |-> r.pkg.svcAbbreviation,
                                    ServiceFullName |-> r.pkg.svcFullName,
                                    CRDNames |-> r.crdNames,
                                    AWSSDKGoVersion |-> opt.AWSSDKGoVersion,
                                    RuntimeVersion |-> opt.RuntimeVersion,
                                    ServiceModelName |-> opt.ModelName]>>
                   /\ pc' = "walk"
                   /\ UNCHANGED err
    /\ UNCHANGED <<envVars, h, found, calls, derived, derives, tplPaths, idx, fs,
                   logVars, run, fsStart>>

\* generateTemplates up to tplVars (generate.go lines 53-68)
Extract_generate_go ==
    /\ build = "generate.go"
    /\ pc = "start"
    /\   \E svcAlias \in {ToLower(opt.ServiceAlias)} :
         \E r \in {getServiceResourcesPrompting(svcAlias, stdin)} :
             /\ pkg' = r.pkg
             /\ crdNames' = r.crdNames
             \* the error of ensureSDKRepo is assigned and never read
             /\ stages' = <<Stage("acquire", ensureSDKRepo)>> \o r.stages
             /\ IF r.err # NoErr
                THEN /\ err' = r.err
                     /\ pc' = "done"
                     /\ UNCHANGED tplVars
                ELSE /\ tplVars' = <<[ServiceID |-> r.pkg.svcID,
                                      ServicePackageName |-> svcAlias,
                                      ServiceAbbreviation |-> r.pkg.svcAbbreviation,
                                      ServiceFullName |-> r.pkg.svcFullName,
                                      ServiceResources |-> r.crdNames,
                                      AWSSDKGoVersion |-> opt.AWSSDKGoVersion,
                                      RuntimeVersion |-> opt.RuntimeVersion]>>
                     /\ pc' = "walk"
                     /\ UNCHANGED err
    /\ UNCHANGED <<envVars, h, found, calls, derived, derives, tplPaths, idx, fs,
                   logVars, run, fsStart>>

\* filepath.Walk(tplDir, ...) over the entries of t from the i-th on: the
\* paths that are not directories, in the order of the walk, up to the first
\* directory that cannot be read, where the callback returns the error and the
\* walk ends
RECURSIVE WalkFrom(_, _)
WalkFrom(t, i) ==
    IF i > Len(t) THEN [paths |-> <<>>, err |-> NoErr]
    ELSE IF t[i].body = Unreadable
         THEN [paths |-> <<>>, err |-> "open: permission denied"]
         ELSE LET rest == WalkFrom(t, i + 1)
              IN  [paths |-> <<t[i].path>> \o rest.paths, err |-> rest.err]

\* the paths filepath.Walk appended; its error is assigned to err and never
\* read (part_006 line 82, part_005 line 84, generate.go line 73)
WalkFiles(t) == WalkFrom(t, 1).paths

\* the enumeration of the templates (part_006 lines 80-90, part_005 lines
\* 77-93, generate.go lines 70-81); the template directory is read here for
\* the first time
Enumerate ==
    /\ pc = "walk"
    /\ \E t \in (IF tree = <<>> THEN Trees ELSE {tree[1]}) :
         /\ tree' = <<t>>
         /\ tplPaths' = IF build = "part_005" /\ opt.ExistingController
                        THEN staticFiles
                        ELSE WalkFiles(t)
    /\ idx' = 0
    /\ pc' = "loop"
    /\ UNCHANGED <<build, opt, load, apis, catalog, singular, fs0, stdin, clone, sig, locVars,
                   derived, crdNames, derives, pkg, tplVars, err, fs, logVars, run, fsStart,
                   stages>>

\* the write of a rendered template happening although its error was not
\* looked at
WritesUnchecked(r, how) == how = "write"

\* a dry-run branch without its continue: the file is printed and written
WritesAfterPrint(r, how) == r.err = NoErr /\ how \in {"write", "print"}

\* whether the iteration reaches the write: the template parsed and executed
\* without error and the file is neither printed nor skipped
Writes(r, how) == r.err = NoErr /\ how = "write"

\* an iteration that does not look at the error of the write
IterationErrorOfTemplateOnly(r, w) == r.err

\* the error an iteration returns: that of ParseFiles or Execute, else that of
\* ensureDir or WriteFile (part_006 lines 95-121)
IterationError(r, w) == IF r.err # NoErr THEN r.err ELSE w.err

\* the rest of one iteration of the render loop, once the template at tplPath
\* gave r: return the error, or print, write or skip the file and go on
Emit(tplPath, r, how, shownAs, outPath) ==
    LET w == IF Writes(r, how) THEN writeFiles(fs, outPath, r.out)
             ELSE [fs |-> fs, err |-> NoErr, wrote |-> FALSE]
        e == IterationError(r, w)
    IN  /\ parsed' = Append(parsed, tplPath)
        /\ executed' = IF r.executed THEN Append(executed, tplPath) ELSE executed
        /\ fs' = w.fs
        /\ written' = IF w.wrote THEN Append(written, outPath) ELSE written
        /\ printed' = IF e = NoErr /\ how = "print"
                      THEN Append(printed, [file |-> shownAs, text |-> TrimSpace(r.out)])
                      ELSE printed
        /\ IF e # NoErr
           THEN /\ err' = e
                /\ pc' = "done"
                /\ UNCHANGED idx
           ELSE /\ idx' = idx + 1
                /\ UNCHANGED <<pc, err>>
        /\ UNCHANGED <<envVars, locVars, derived, crdNames, derives, pkg, tplVars,
                       tplPaths, run, fsStart, stages>>

\* a destination that keeps the ".tpl" of the template
TrimmedFileKeepingSuffix(tplPath) == TrimPrefix(tplPath, tplDir)

\* the destination below the output path: the template path without the
\* template directory and without one trailing ".tpl"
TrimmedFile(tplPath) == TrimSuffix(TrimPrefix(tplPath, tplDir), S_tpl)

\* a loop that has lost the dry-run branch
How_part006_NoDryRun == "write"

\* what part_006 does with a rendered template (lines 108-121)
How_part006 == IF opt.DryRun THEN "print" ELSE "write"

\* one iteration of the loop of part_006 (lines 94-122)
Step_part006 ==
    /\ build = "part_006"
    /\ pc = "loop"
    /\ idx < Len(tplPaths)
    /\ LET tplPath == tplPaths[idx + 1]
           file == TrimmedFile(tplPath)
       IN  Emit(tplPath, RenderOne(tplPath), How_part006, file,
                Join(<<opt.OutputPath, file>>))

\* one iteration of the loop of part_005 (lines 97-125)
Step_part005 ==
    /\ build = "part_005"
    /\ pc = "loop"
    /\ idx < Len(tplPaths)
    /\ LET filePath == IF opt.ExistingController
                       THEN Join(<<tplDir, tplPaths[idx + 1]>>)
                       ELSE tplPaths[idx + 1]
           trimPath == TrimmedFile(filePath)
       IN  Emit(filePath, RenderOne(filePath),
                IF opt.DryRun THEN "print" ELSE "write", trimPath,
                Join(<<opt.OutputPath, trimPath>>))

\* updateFile of generate.go (line 96)
updateFile(file) ==
    \/ HasSuffix(file, <<"R","E","A","D","M","E",".","m","d",".","t","p","l">>)  \* "README.md.tpl"
    \/ Contains(file, <<"O","W","N","E","R","S">>)                               \* "OWNERS"

\* what generate.go does with a rendered template (lines 94-119)
How_generate_go(file) ==
    IF opt.ExistingController
    THEN IF opt.DryRun /\ updateFile(file) THEN "print"
         ELSE IF updateFile(file) THEN "write"
         ELSE "skip"
    ELSE IF opt.DryRun THEN "print" ELSE "write"

\* one iteration of the loop of generate.go (lines 84-120)
Step_generate_go ==
    /\ build = "generate.go"
    /\ pc = "loop"
    /\ idx < Len(tplPaths)
    /\ LET file == tplPaths[idx + 1]
       IN  Emit(file, RenderOne(file), How_generate_go(file), file,
                Join(<<opt.OutputPath, TrimmedFile(file)>>))

\* the loop is over: return nil
Finish ==
    /\ pc = "loop"
    /\ idx = Len(tplPaths)
    /\ pc' = "done"
    /\ err' = NoErr
    /\ UNCHANGED <<envVars, locVars, derived, crdNames, derives, pkg, tplVars, tplPaths,
                   idx, fs, logVars, run, fsStart, stages>>

\* the command is run once more, in a new process, with the same flags on
\* what the run before left
RunAgain ==
    /\ pc = "done"
    /\ run < MaxRuns
    /\ run' = run + 1
    /\ fsStart' = fs
    /\ h' = newAWSSDKHelper
    /\ pkg' = ZeroPkg
    /\ crdNames' = <<>>
    /\ tplVars' = <<>>
    /\ pc' = "start"
    /\ err' = NoErr
    /\ tplPaths' = <<>>
    /\ idx' = 0
    /\ parsed' = <<>>
    /\ executed' = <<>>
    /\ written' = <<>>
    /\ printed' = <<>>
    /\ stages' = <<>>
    /\ UNCHANGED <<envVars, found, calls, derived, derives, fs>>

Next ==
    \/ Extract_part006
    \/ Extract_part005
    \/ Extract_generate_go
    \/ Enumerate
    \/ Step_part006
    \/ Step_part005
    \/ Step_generate_go
    \/ Finish
    \/ RunAgain

Spec == InitRun /\ [][Next]_vars

(***************************************************************************)
(* contextWithSigterm, its watcher goroutine and the caller that hands the *)
(* context to ensureSDKRepo (part_006 lines 49-60, 145-168, 182-203)       *)
(***************************************************************************)
Signals == {"SIGINT", "SIGTERM"}

\* every variable but sig
notSig == <<apis, h, found, calls, catalog, singular, derived, crdNames, derives,
            build, opt, load, pkg, tplVars, pc, err, tree, tplPaths, idx, fs, fs0,
            parsed, executed, written, printed, run, fsStart, stdin, clone, stages>>

\* a channel without a buffer and nobody receiving yet: the signal is lost
RelayUnbuffered(ch, s) == ch

\* os/signal hands a signal to the channel without blocking: it is stored
\* while the buffer (make(chan os.Signal, 1)) has room and dropped otherwise
Relay(ch, s) == IF Len(ch) < 1 THEN Append(ch, s) ELSE ch

\* generateController calls contextWithSigterm; the repository is there or
\* has to be cloned
InitSigterm ==
    /\ LocateIdle
    /\ DeriveIdle
    /\ RunIdle
    /\ sig \in {[caller |-> "entry", watcher |-> "none", notified |-> FALSE,
                 signalCh |-> <<>>, ctxDone |-> FALSE, timedOut |-> FALSE,
                 sent |-> 0, caught |-> FALSE, repoThere |-> there, err |-> NoErr] :
                    there \in BOOLEAN}

\* context.WithCancel, make(chan os.Signal, 1), signal.Notify (lines 183-193)
CallerNotify ==
    /\ sig.caller = "entry"
    /\ sig' = [sig EXCEPT !.caller = "go", !.notified = TRUE]
    /\ UNCHANGED notSig

\* go func() { select ... }() and return ctx, cancelFunc (lines 194-202)
CallerGo ==
    /\ sig.caller = "go"
    /\ sig' = [sig EXCEPT !.caller = "fetch", !.watcher = "select"]
    /\ UNCHANGED notSig

\* ensureSDKRepo up to os.Stat(sdkDir) (lines 149-158): os.MkdirAll fails and
\* the error is returned, or the repository is there, or it is to be cloned
CallerStat ==
    /\ sig.caller = "fetch"
    /\ \/ sig' = [sig EXCEPT !.caller = "stop", !.err = "mkdir: permission denied"]
       \/ sig' = [sig EXCEPT !.caller = IF sig.repoThere THEN "work" ELSE "cloning"]
    /\ UNCHANGED notSig

\* the timer of context.WithTimeout(ctx, defaultGitCloneTimeout) fires
CloneTimeout ==
    /\ sig.caller = "cloning"
    /\ ~sig.timedOut
    /\ sig' = [sig EXCEPT !.timedOut = TRUE]
    /\ UNCHANGED notSig

\* git.PlainCloneContext ends with the repository cloned
CloneDone ==
    /\ sig.caller = "cloning"
    /\ sig' = [sig EXCEPT !.caller = "work", !.repoThere = TRUE]
    /\ UNCHANGED notSig

\* git.PlainCloneContext ends on its context being done; ensureSDKRepo and
\* generateController return the error and the deferred cancel is called
CloneAborted ==
    /\ sig.caller = "cloning"
    /\ \E e \in (IF sig.ctxDone THEN {"context canceled"} ELSE {})
               \cup (IF sig.timedOut THEN {"context deadline exceeded"} ELSE {}) :
          sig' = [sig EXCEPT !.caller = "stop", !.err = e]
    /\ UNCHANGED notSig

\* the rest of generateController; on its return the deferred cancel is called
CallerWork ==
    /\ sig.caller = "work"
    /\ sig' = [sig EXCEPT !.caller = "stop"]
    /\ UNCHANGED notSig

\* cancelFunc: signal.Stop(signalCh) (line 188)
CallerStop ==
    /\ sig.caller = "stop"
    /\ sig' = [sig EXCEPT !.caller = "cancel", !.notified = FALSE]
    /\ UNCHANGED notSig

\* cancelFunc: cancel() (line 189)
CallerCancel ==
    /\ sig.caller = "cancel"
    /\ sig' = [sig EXCEPT !.caller = "returned", !.ctxDone = TRUE]
    /\ UNCHANGED notSig

\* the watcher: case <-signalCh: cancel() (lines 196-197)
WatcherSignal ==
    /\ sig.caller # "none"
    /\ sig.watcher = "select"
    /\ sig.signalCh # <<>>
    /\ sig' = [sig EXCEPT !.signalCh = Tail(sig.signalCh), !.ctxDone = TRUE,
                          !.watcher = "done"]
    /\ UNCHANGED notSig

\* the watcher: case <-ctx.Done() (line 198)
WatcherDone ==
    /\ sig.caller # "none"
    /\ sig.watcher = "select"
    /\ sig.ctxDone
    /\ sig' = [sig EXCEPT !.watcher = "done"]
    /\ UNCHANGED notSig

\* the process is sent SIGINT or SIGTERM while signal.Notify is in force
\* (outside of that the signal takes its default action and the process
\* ends); caught: a signal came in before cancelFunc was called
Deliver(s) ==
    /\ sig.caller # "none"
    /\ sig.notified
    /\ sig.sent < MaxSignals
    /\ sig' = [sig EXCEPT !.signalCh = Relay(sig.signalCh, s),
                          !.sent = sig.sent + 1,
                          !.caught = sig.caught \/ sig.caller # "stop"]
    /\ UNCHANGED notSig

NextSigterm ==
    \/ CallerNotify
    \/ CallerGo
    \/ CallerStat
    \/ CloneTimeout
    \/ CloneDone
    \/ CloneAborted
    \/ CallerWork
    \/ CallerStop
    \/ CallerCancel
    \/ WatcherSignal
    \/ WatcherDone
    \/ \E s \in Signals : Deliver(s)

SpecSigterm == InitSigterm /\ [][NextSigterm]_vars

\* the scheduler runs a goroutine that can run: the watcher once a case of its
\* select is ready, and the caller through the statements that do not block
\* (the go statement, signal.Stop, cancel)
SpecSigtermFair ==
    /\ SpecSigterm
    /\ WF_vars(WatcherSignal \/ WatcherDone)
    /\ WF_vars(CallerGo)
    /\ WF_vars(CallerStop)
    /\ WF_vars(CallerCancel)

(***************************************************************************)
(* Claims about the Model Locator                                          *)
(***************************************************************************)
NamesOf(entries) == {entries[i].name : i \in 1..Len(entries)}
OnlyDirs(entries) == \A i \in 1..Len(entries) : entries[i].kind = "dir"

\* <modelRoot>/<serviceIdentifier>/<v>/api-2.json
ModelFile(svc, v) ==
    sdkDir \o Slash \o S_models \o Slash \o S_apis \o Slash \o svc \o Slash \o v
           \o Slash \o S_api2json

\* C1: with no explicit version, for a service directory that holds only version
\* directories (at least one), locate returns without error the path
\* <modelRoot>/<service>/<v>/api-2.json where v is the lexicographically
\* smallest directory name present, whatever the order of the listing.
C1_SmallestVersion ==
    (/\ found.called
     /\ found.versionBefore = <<>>
     /\ DirOf(found.svc).exists
     /\ DirOf(found.svc).entries # <<>>
     /\ OnlyDirs(DirOf(found.svc).entries))
    => /\ found.err = NoErr
       /\ \E v \in NamesOf(DirOf(found.svc).entries) :
            /\ \A w \in NamesOf(DirOf(found.svc).entries) : w = v \/ StrLess(v, w)
            /\ found.path = ModelFile(found.svc, v)

\* C1 witness: a listing of two version directories given in descending order
\* was located, and the second listed (smaller) one was chosen.
C1_Witness ==
    /\ found.called
    /\ found.versionBefore = <<>>
    /\ DirOf(found.svc) = [exists |-> TRUE,
                           entries |-> <<[name |-> V_2014, kind |-> "dir"],
                                         [name |-> V_201, kind |-> "dir"]>>]
    /\ found.path = ModelFile(found.svc, V_201)

\* C10: with no explicit version, a service directory holding any entry that is
\* not a directory makes locate fail with an error and return no path, even
\* when version directories are present too.
C10_NonDirectoryFatal ==
    (/\ found.called
     /\ found.versionBefore = <<>>
     /\ DirOf(found.svc).exists
     /\ ~OnlyDirs(DirOf(found.svc).entries))
    => /\ found.err # NoErr
       /\ found.path = <<>>

\* C10 witness: a valid version directory listed before a plain file, and the
\* call failed on the file.
C10_Witness ==
    /\ found.called
    /\ found.versionBefore = <<>>
    /\ DirOf(found.svc) = [exists |-> TRUE,
                           entries |-> <<[name |-> V_2006, kind |-> "dir"],
                                         [name |-> V_2014, kind |-> "file"]>>]
    /\ found.err = ErrNonDirectory
    /\ found.path = <<>>

\* the service directory holds no version directory: absent, or no entry
NoVersionDir(svc) == ~DirOf(svc).exists \/ DirOf(svc).entries = <<>>

\* C11: with no explicit version, a service directory that is absent or empty
\* makes locate fail with an error; no version is picked and no path returned.
C11_NoVersionNotFound ==
    (/\ found.called
     /\ found.versionBefore = <<>>
     /\ NoVersionDir(found.svc))
    => /\ found.err # NoErr
       /\ found.path = <<>>
       /\ h.apiVersion = <<>>

\* C11 witness: locate was called on a service directory that exists and is
\* empty, and failed.
C11_Witness ==
    /\ found.called
    /\ found.versionBefore = <<>>
    /\ DirOf(found.svc) = [exists |-> TRUE, entries |-> <<>>]
    /\ found.err # NoErr
    /\ found.path = <<>>

(***************************************************************************)
(* Claims about the Resource-Name Deriver                                  *)
(***************************************************************************)
\* the positions of the catalog whose operation yields a resource name
Qualifying ==
    {i \in 1..Len(catalog) :
        /\ HasPrefix(catalog[i], S_Create)
        /\ ~HasPrefix(catalog[i], S_CreateBatch)
        /\ SubSeq(catalog[i], Len(S_Create) + 1, Len(catalog[i])) \in singular}

\* names is exactly the stripped qualifying operations, in catalog order
ExactlyQualifying(names) ==
    /\ Len(names) = Cardinality(Qualifying)
    /\ \A k \in 1..Len(names) :
          \E i \in Qualifying :
             /\ Cardinality({j \in Qualifying : j < i}) = k - 1
             /\ names[k] = SubSeq(catalog[i], Len(S_Create) + 1, Len(catalog[i]))

\* C2: deriveNames returns exactly, in catalog order, the names got by
\* stripping "Create" from the operations that start with "Create", do not
\* start with "CreateBatch" and whose remainder is classified singular; this is
\* what part_004 returns and what the first call of part_002 leaves in crdNames.
C2_ExactlyCreateSingular ==
    /\ derived.called => ExactlyQualifying(derived.names)
    /\ (derives = 1 /\ ~derived.called) => ExactlyQualifying(crdNames)

\* C2 witness: the catalog of the spec's example, with Widget singular and
\* Things plural, derived to exactly [Widget].
C2_Witness ==
    /\ catalog = <<Op_CreateWidget, Op_CreateBatchWidgets, Op_CreateThings,
                   Op_DescribeWidget>>
    /\ W_Widget \in singular
    /\ W_Things \notin singular
    /\ W_BatchWidgets \in singular
    /\ derived.called
    /\ derived.names = <<W_Widget>>


NoDuplicates(names) == \A i, j \in 1..Len(names) : i # j => names[i] # names[j]

\* C12: the derived list never holds the same name twice (the operation names
\* of a catalog are distinct, so no two of them strip to the same candidate);
\* this is what part_004 returns and what the first call of part_002 leaves.
C12_NoDuplicateNames ==
    /\ derived.called => NoDuplicates(derived.names)
    /\ (derives = 1 /\ ~derived.called) => NoDuplicates(crdNames)

\* C12 witness: two names were derived by a second call of part_004.
C12_Witness ==
    /\ derived.called
    /\ derives = 2
    /\ crdNames = <<>>
    /\ Len(derived.names) >= 2

\* C13: an operation named exactly "Create" yields no resource name: the
\* derived list never holds the empty string.
C13_EmptyCandidateRejected ==
    derived.called => \A k \in 1..Len(derived.names) : derived.names[k] # <<>>

(***************************************************************************)
(* Claims about the render loop                                            *)
(***************************************************************************)

\* the files below the template root, and how often a path was executed
FilesOf(t) == {t[i].path : i \in {k \in 1..Len(t) : t[k].body # Unreadable}}
TimesExecuted(path) == Cardinality({i \in 1..Len(executed) : executed[i] = path})

\* C14: a fresh-mode run that ends without error has rendered every file
\* below the template root exactly once, and nothing else.
C14_FreshRendersEveryFileOnce ==
    (~opt.ExistingController /\ pc = "done" /\ err = NoErr /\ tree # <<>>) =>
        /\ \A path \in FilesOf(tree[1]) : TimesExecuted(path) = 1
        /\ \A i \in 1..Len(executed) : executed[i] \in FilesOf(tree[1])

\* C3: in a run with the dry-run flag set, fresh or existing mode, the render
\* loop creates no directory and creates or modifies no file, whatever the
\* number of templates: the filesystem stays what it was before the run.
C3_DryRunSafety == opt.DryRun => fs = fs0

\* a dry run over an existing controller that printed two templates and ended
C3_Witness ==
    /\ opt.DryRun
    /\ opt.ExistingController
    /\ pc = "done"
    /\ err = NoErr
    /\ Len(printed) >= 2

\* the templates of the allow-list: the descriptive files of staticFiles,
\* README.md and OWNERS
AllowList == StaticNames \cup {N_README, N_OWNERS}
AllowedDest == {Join(<<opt.OutputPath, TrimSuffix(Slash \o n, S_tpl)>>) : n \in AllowList}
AllowedShown ==
    {TrimSuffix(Slash \o n, S_tpl) : n \in AllowList}
        \cup {Join(<<tplDir, n>>) : n \in AllowList}

\* C4: in a run for an existing controller every file written, and every file
\* printed by a dry run, is the destination of a template of the allow-list,
\* whatever else the template directory holds.
C4_OnlyAllowList ==
    opt.ExistingController =>
        /\ \A i \in 1..Len(written) : written[i] \in AllowedDest
        /\ \A i \in 1..Len(printed) : printed[i].file \in AllowedShown

\* C5: a run without dry-run and with an empty output path reads, renders and
\* writes no template, and once the metadata is extracted it ends with a
\* ConfigError.
C5_EmptyOutputPathFails ==
    (~opt.DryRun /\ opt.OutputPath = <<>>) =>
        /\ parsed = <<>>
        /\ written = <<>>
        /\ fs = fs0
        /\ (pc = "done" /\ tplVars # <<>>) => err = "ConfigError"

TemplateErrors == {ErrNoSuchTemplate, ErrParse, ErrNoField, ErrNilPointer}

\* the run ended on the error of a template
FailedOnTemplate == pc = "done" /\ err \in TemplateErrors

\* the template file of the j-th iteration and its destination
TplFileAt(j) ==
    IF build = "part_005" /\ opt.ExistingController
    THEN Join(<<tplDir, tplPaths[j]>>)
    ELSE tplPaths[j]
DestAt(j) == Join(<<opt.OutputPath, TrimmedFile(TplFileAt(j))>>)

\* the paths the current run created or changed
Touched == {q \in DOMAIN fs : q \notin DOMAIN fsStart \/ fs[q] # fsStart[q]}

\* C6 as stated: when a template fails to parse or execute, the run has
\* produced no output file, wherever the template stands in the enumeration.
C6_NoOutputOnTemplateError == FailedOnTemplate => written = <<>> /\ fs = fsStart

\* C6 as amended: when a template fails to parse or execute, the run ends with
\* that error and nothing was written for the failing template or any template
\* after it: every file written and every path created or changed belongs to a
\* template before the failing one (idx counts the templates before it).
C6_NothingFromFailingTemplateOn ==
    FailedOnTemplate =>
        /\ \A i \in 1..Len(written) : \E j \in 1..idx : written[i] = DestAt(j)
        /\ \A q \in Touched :
              \E j \in 1..idx : q = DestAt(j) \/ q \in Ancestors(DestAt(j))

\* a template with an undefined field failed after another one was written
C6_Witness ==
    /\ FailedOnTemplate
    /\ err = ErrNoField
    /\ idx >= 1
    /\ written # <<>>

\* C7: when the command is run again without dry-run, with the same flags,
\* model and template directory, the output tree after the later run is the
\* tree the earlier run left: same files, same contents.
C7_SecondRunSameTree == (run >= 2 /\ pc = "done" /\ ~opt.DryRun) => fs = fsStart

\* a second run that wrote two files over the ones of the first
C7_Witness ==
    /\ run = 2
    /\ pc = "done"
    /\ err = NoErr
    /\ ~opt.DryRun
    /\ Len(written) >= 2
    /\ fs # fs0

\* the context holds the metadata of a loaded model
ContextPopulated(ctx) ==
    IF "metaVars" \in DOMAIN ctx
    THEN ctx.metaVars # <<>> /\ ctx.metaVars[1].ServiceID # <<>>
    ELSE ctx.ServiceID # <<>>

\* C8: whenever a template has been rendered, the context it was rendered
\* against holds the metadata of a loaded model, whatever the loader returned.
C8_ContextPopulatedAtRender ==
    executed # <<>> => tplVars # <<>> /\ ContextPopulated(tplVars[1])

\* the ServicePackageName of the context: <<>> when the context has none
PackageAliasOf(ctx) ==
    IF "metaVars" \in DOMAIN ctx
    THEN IF ctx.metaVars = <<>> THEN <<>> ELSE <<ctx.metaVars[1].ServicePackageName>>
    ELSE <<ctx.ServicePackageName>>

\* C9: the context of every run has a ServicePackageName, and it is the
\* lower-cased service alias the caller gave.
C9_PackageAliasIsLoweredAlias ==
    tplVars # <<>> => PackageAliasOf(tplVars[1]) = <<ToLower(opt.ServiceAlias)>>


\* the destination the spec gives the template at path p: the output path,
\* then p without the template root and without one trailing ".tpl"
RelativeTo(p) == SubSeq(p, Len(tplDir) + 1, Len(p))
WithoutTpl(r) ==
    IF Len(r) >= 4 /\ SubSeq(r, Len(r) - 3, Len(r)) = <<".","t","p","l">>
    THEN SubSeq(r, 1, Len(r) - 4)
    ELSE r
Destination(p) == opt.OutputPath \o WithoutTpl(RelativeTo(p))

\* C15: every file written is the output path followed by the path of an
\* executed template relative to the template root, one trailing ".tpl"
\* removed; a template without the suffix keeps its name.
C15_DestinationMirrorsTemplate ==
    \A i \in 1..Len(written) :
        \E j \in 1..Len(executed) :
            /\ SubSeq(executed[j], 1, Len(tplDir)) = tplDir
            /\ written[i] = Destination(executed[j])

\* C15 witness: a nested template and a template without the suffix were
\* written to /o/cmd/main.go and /o/Makefile.
C15_Witness ==
    /\ pc = "done"
    /\ err = NoErr
    /\ \E i \in 1..Len(written) : written[i] = S_out \o Slash \o N_Makefile
    /\ \E i \in 1..Len(written) : written[i] = S_out \o Slash \o WithoutTpl(N_main)

\* C16: no run both prints and writes: a dry run writes no rendered file and
\* a run without dry-run prints none, so no template's output is both printed
\* and written.
C16_PrintedOrWritten ==
    /\ opt.DryRun => written = <<>>
    /\ ~opt.DryRun => printed = <<>>

\* C16 witness: a fresh-mode dry run printed two files and wrote none.
C16_Witness ==
    /\ opt.DryRun
    /\ ~opt.ExistingController
    /\ pc = "done"
    /\ Len(printed) >= 2
    /\ written = <<>>

\* the bytes the template at path p renders to
RenderedBytes(p) == Execute(ParseFiles(tree[1], p).body, tplVars[1]).out

\* C17: every destination written in the run holds exactly the bytes its
\* template rendered to, whatever it held before.
C17_WriteReplacesContent ==
    \A i \in 1..Len(written) :
        /\ written[i] \in DOMAIN fs
        /\ \E j \in 1..Len(executed) :
              /\ written[i] = Destination(executed[j])
              /\ fs[written[i]] = FileEntry(RenderedBytes(executed[j]))

\* C17 witness: the first run wrote /o/README.md over the file that was there.
C17_Witness ==
    /\ run = 1
    /\ fs0 = FS_Existing
    /\ \E i \in 1..Len(written) :
          /\ written[i] = S_out \o Slash \o WithoutTpl(N_README)
          /\ fs0[written[i]].kind = "file"
          /\ fs[written[i]] # fs0[written[i]]

\* C18: a destination whose parent path was there when the run started, as
\* something other than a directory or as a directory the process has no
\* write permission on, is not written: nothing is written at it in the run.
C18_NoWriteWithoutWritableParent ==
    \A i \in 1..Len(written) :
        LET parent == Dir(written[i])
        IN  parent \in DOMAIN fsStart =>
                fsStart[parent].kind = "dir" /\ fsStart[parent].writable

DefaultedModelName ==
    ToLower(IF opt.ModelName = <<>> THEN opt.ServiceAlias ELSE opt.ModelName)

\* C20: once the render context is built, the model directory was looked up
\* under the lower-cased override, or under the lower-cased alias when no
\* override was given, and ServiceModelName in the context is that same name.
C20_ModelNameDefaultsToAlias ==
    (build \in {"part_005", "part_006"} /\ tplVars # <<>>) =>
        /\ build = "part_006" => h = findModelPath(newAWSSDKHelper, DefaultedModelName).h
        /\ EvalField(tplVars[1], "ServiceModelName") =
               [val |-> DefaultedModelName, err |-> NoErr]

\* whether the tree holds the template named n
InTree(n) == \E k \in 1..Len(tree[1]) : tree[1][k].path = Join(<<tplDir, n>>)

\* whether the run wrote the file of the template named n, or printed it
Materialized(n) ==
    IF opt.DryRun
    THEN \E i \in 1..Len(printed) :
            printed[i].file \in {TrimSuffix(Slash \o n, S_tpl), Join(<<tplDir, n>>)}
    ELSE \E i \in 1..Len(written) :
            written[i] = Join(<<opt.OutputPath, TrimSuffix(Slash \o n, S_tpl)>>)

\* C21: a run for an existing controller that ended without error wrote, or
\* printed in a dry run, README.md and OWNERS when their templates are in the
\* template directory.
C21_UpdateRendersReadmeAndOwners ==
    (opt.ExistingController /\ pc = "done" /\ err = NoErr /\ tree # <<>>) =>
        \A n \in {N_README, N_OWNERS} : InTree(n) => Materialized(n)

\* C22: when acquiring the model repository or locating the model failed, that
\* was the last stage of the run: the loader was not called after it, no
\* template was parsed, and the run ended with an error.
C22_FailFastAcrossStages ==
    \A i \in 1..Len(stages) :
        (stages[i].stage \in {"acquire", "locate"} /\ stages[i].err # NoErr) =>
            /\ i = Len(stages)
            /\ parsed = <<>>
            /\ pc = "done"
            /\ err # NoErr

\* the walk over the template directory of the run ended on an error
EnumerationFailed ==
    /\ tree # <<>>
    /\ ~(build = "part_005" /\ opt.ExistingController)
    /\ WalkFrom(tree[1], 1).err # NoErr

\* C23: a run whose walk over the template directory failed parses no template
\* and ends with an error.
C23_FailedEnumerationIsAnError ==
    EnumerationFailed =>
        /\ parsed = <<>>
        /\ pc = "done" => err # NoErr

\* what the build does with the rendered template at path p
HowOf(p) ==
    IF build = "generate.go" THEN How_generate_go(p)
    ELSE IF opt.DryRun THEN "print" ELSE "write"

\* the j-th template parsed was to be written and was not
WriteFailedAt(j) ==
    /\ RenderOne(parsed[j]).err = NoErr
    /\ HowOf(parsed[j]) = "write"
    /\ \A i \in 1..Len(written) : written[i] # Destination(parsed[j])

\* parsing, executing or writing the j-th template parsed failed
FailedAt(j) == RenderOne(parsed[j]).err # NoErr \/ WriteFailedAt(j)

\* C24: the templates are parsed in the order of the enumeration, and a
\* template whose parsing, execution or write failed is the last one parsed:
\* the run is over with that error, and no more files were printed or written
\* than there are templates before it.
C24_FailureAbortsTheRest ==
    \A j \in 1..Len(parsed) :
        /\ parsed[j] = TplFileAt(j)
        /\ FailedAt(j) =>
              /\ j = Len(parsed)
              /\ pc = "done"
              /\ err # NoErr
              /\ RenderOne(parsed[j]).err # NoErr => err = RenderOne(parsed[j]).err
              /\ Len(written) + Len(printed) < j

\* C24 witness: the fourth of six templates failed to parse after three files
\* were written, and the two after it were left alone.
C24_Witness ==
    /\ pc = "done"
    /\ err = ErrParse
    /\ Len(parsed) = 4
    /\ Len(tplPaths) = 6
    /\ Len(written) = 3

\* the run without dry-run ended on an error of the render loop
LoopFailed == pc = "done" /\ err # NoErr /\ tplVars # <<>> /\ ~opt.DryRun

\* C25: when a run without dry-run ends on the error of a template, every
\* template before it that the build writes has its file on disk with the
\* rendered content, and nothing else was created or changed: the output tree
\* holds the outputs of the templates before the failing one and no more.
C25_PrefixStaysOnDisk ==
    LoopFailed =>
        /\ \A j \in 1..idx :
              HowOf(TplFileAt(j)) = "write" =>
                  /\ Destination(TplFileAt(j)) \in DOMAIN fs
                  /\ fs[Destination(TplFileAt(j))] = FileEntry(RenderedBytes(TplFileAt(j)))
        /\ \A q \in Touched :
              \E j \in 1..idx :
                  /\ HowOf(TplFileAt(j)) = "write"
                  /\ q \in {Destination(TplFileAt(j))} \cup Ancestors(Destination(TplFileAt(j)))

\* C25 witness: README.md was rewritten in a directory that takes no new
\* entries, the next template could not be written, and the new README.md is
\* still there.
C25_Witness ==
    /\ LoopFailed
    /\ err = ErrPermission
    /\ idx >= 1
    /\ fs0 = FS_ReadOnly
    /\ run = 1
    /\ fs # fs0

\* C26: a call of findModelPath gives the path and the error a new helper
\* gives for the same service, whatever the helper was used for before.
C26_LocateIndependentOfHistory ==
    found.called =>
        /\ found.path = findModelPath(newAWSSDKHelper, found.svc).path
        /\ found.err = findModelPath(newAWSSDKHelper, found.svc).err

\* C27: however many derivations were made from the catalog, the result at
\* hand is the list one derivation gives: the slice returned by part_004, and
\* the package-level slice of part_002 once it has been derived into.
C27_DerivationKeepsNoState ==
    /\ derived.called => derived.names = CRDLoop(catalog, 1, <<>>)
    /\ crdNames # <<>> => crdNames = CRDLoop(catalog, 1, <<>>)

\* the template files of the allow-list
AllowedTemplates == {Join(<<tplDir, n>>) : n \in AllowList}

\* C28: in a run for an existing controller only templates of the allow-list
\* are parsed and executed, so the run never ends on the error of another
\* template.
C28_UpdateParsesOnlyAllowList ==
    opt.ExistingController =>
        /\ \A j \in 1..Len(parsed) : parsed[j] \in AllowedTemplates
        /\ \A j \in 1..Len(executed) : executed[j] \in AllowedTemplates

\* the error of the first stage of the extraction that failed
FirstCause ==
    stages[CHOOSE i \in 1..Len(stages) :
              /\ stages[i].err # NoErr
              /\ \A k \in 1..(i - 1) : stages[k].err = NoErr].err

\* C29: a run that ended because a stage of the extraction failed returns the
\* error of the first stage that failed, so that a model directory without a
\* version and a model file that does not load end in different errors.
C29_ExtractionErrorKeepsCause ==
    (/\ pc = "done"
     /\ tplVars = <<>>
     /\ \E i \in 1..Len(stages) : stages[i].err # NoErr)
    => err = FirstCause

\* cancelFunc has been called
CancelCalled == sig.caller \in {"stop", "cancel", "returned"}

\* C30: a signal that came in before cancelFunc was called leads to the
\* context being cancelled, and a signal that came in, or a call of
\* cancelFunc, leads to the watcher goroutine having returned.
C30_SignalCancelsAndWatcherEnds ==
    /\ (sig.caller # "none" /\ sig.caught) ~> sig.ctxDone
    /\ (sig.caller # "none" /\ (sig.sent > 0 \/ CancelCalled)) ~> (sig.watcher = "done")

\* C30 witness: a signal came in while the repository was being cloned, the
\* watcher cancelled the context and returned, and the clone ended on
\* "context canceled" before cancelFunc ran.
C30_Witness ==
    /\ sig.caller = "stop"
    /\ sig.caught
    /\ sig.ctxDone
    /\ sig.watcher = "done"
    /\ sig.err = "context canceled"

====
